---- MODULE Spec2Model ----
(***************************************************************************)
(* Model of get_prepare_data.py: the corpus parser (mit_list2df followed   *)
(* by the read_csv / notnull step of prepare_data) and the aggregation of  *)
(* the per-model predictions (test).                                       *)
(*                                                                         *)
(* Text is a sequence of atoms: a word is one atom, and the white space    *)
(* characters " ", "\t" and "\n" are atoms of their own, so that a raw     *)
(* line such as 'O w\n' is << "O", " ", "w", "\n" >>.                      *)
(***************************************************************************)
EXTENDS Integers, Sequences, FiniteSets, TLC

VARIABLES
    df_list,        \* mit_list2df: the raw lines of one split (readlines())
    idx,            \* mit_list2df: number of lines the for loop has consumed
    sentense_id,    \* mit_list2df: the running counter
    new_df_list,    \* mit_list2df: the lines emitted so far
    cpc,            \* prepare_data: "loop" | "joined" | "done"
    parsed,         \* prepare_data: outcome of read_csv and the notnull filter
    sentences_n,    \* test: len(sentences_list)
    m_i,            \* test: number of models the for loop has finished
    predictions,    \* test: what predict() returned, per finished model
    sentence_li,    \* test: the frames collected so far
    tpc,            \* test: "loop" | "raised" | "done"
    new_df          \* test: the outcome (the returned table, or the error)

corpusVars == <<df_list, idx, sentense_id, new_df_list, cpc, parsed>>

testVars == <<sentences_n, m_i, predictions, sentence_li, tpc, new_df>>

vars == <<corpusVars, testVars>>

(***************************************************************************)
(* Bounds                                                                  *)
(***************************************************************************)
MaxLines == 5
MaxSent == 2
MaxRows == 4

(***************************************************************************)
(* Text atoms                                                              *)
(***************************************************************************)
NL == "\n"
SP == " "
TAB == "\t"
WhiteSpace == {SP, TAB}

\* The raw lines the corpus file may hold: the blank delimiter, a line of
\* white space only, and content lines of one, two and three fields.
RawLines ==
    { <<NL>>,
      <<SP, NL>>,
      <<"w", NL>>,
      <<"O", SP, "w", NL>>,
      <<"B", SP, "v", NL>>,
      <<"O", SP, "NA", NL>>,
      <<"O", SP, "w", SP, "x", NL>> }

RECURSIVE SeqsUpTo(_, _)
SeqsUpTo(S, n) ==
    IF n = 0 THEN {<<>>}
    ELSE LET shorter == SeqsUpTo(S, n - 1)
         IN  shorter \cup {Append(s, x) : s \in {t \in shorter : Len(t) = n - 1}, x \in S}

(***************************************************************************)
(* str(int) and the integer parse of read_csv                              *)
(***************************************************************************)
DigitChars == <<"0", "1", "2", "3", "4", "5", "6", "7", "8", "9">>

RECURSIVE Str(_)
Str(n) ==
    IF n < 10 THEN <<DigitChars[n + 1]>>
    ELSE Append(Str(n \div 10), DigitChars[(n % 10) + 1])

DigitValue(c) == (CHOOSE k \in 1..10 : DigitChars[k] = c) - 1

IsDigits(field) ==
    /\ field # <<>>
    /\ \A k \in 1..Len(field) : \E d \in 1..10 : DigitChars[d] = field[k]

RECURSIVE ParseInt(_)
ParseInt(field) ==
    IF Len(field) = 1 THEN DigitValue(field[1])
    ELSE 10 * ParseInt(SubSeq(field, 1, Len(field) - 1)) + DigitValue(field[Len(field)])

(***************************************************************************)
(* mit_list2df                                                             *)
(***************************************************************************)
\* line == '\n'
IsDelimiter(line) == line = <<NL>>

\* line.strip() == '' in place of line == '\n'
NextSentenseIdStripped(sid, line) ==
    IF \A k \in 1..Len(line) : line[k] \in WhiteSpace \cup {NL} THEN sid + 1 ELSE sid

\* the counter after one line of the loop
NextSentenseId(sid, line) == IF IsDelimiter(line) THEN sid + 1 ELSE sid

\* str(sentense_id) + '\t' + line
Emitted(sid, line) == Str(sid) \o <<TAB>> \o line

\* new_df_list after one line of the loop
NextNewDfList(lst, sid, line) ==
    IF IsDelimiter(line) THEN lst ELSE Append(lst, Emitted(sid, line))

MitLoopStep ==
    /\ cpc = "loop"
    /\ idx < Len(df_list)
    /\ LET line == df_list[idx + 1]
       IN  /\ sentense_id' = NextSentenseId(sentense_id, line)
           /\ new_df_list' = NextNewDfList(new_df_list, sentense_id, line)
    /\ idx' = idx + 1
    /\ UNCHANGED <<df_list, cpc, parsed>>
    /\ UNCHANGED testVars

MitLoopReturn ==
    /\ cpc = "loop"
    /\ idx = Len(df_list)
    /\ cpc' = "joined"
    /\ UNCHANGED <<df_list, idx, sentense_id, new_df_list, parsed>>
    /\ UNCHANGED testVars

(***************************************************************************)
(* prepare_data: read_csv(io.StringIO(''.join(tmp_list)),                  *)
(*     delim_whitespace=True, header=None, names=[3 names]) and the        *)
(*     words.notnull() filter                                              *)
(***************************************************************************)
RECURSIVE Join(_)
Join(lst) == IF lst = <<>> THEN <<>> ELSE Head(lst) \o Join(Tail(lst))

\* The tokenizer: rows end at "\n", fields are the maximal runs of atoms
\* that are not white space; a row without any field is skipped.
RECURSIVE Tokenize(_, _, _, _)
Tokenize(text, rows, row, fld) ==
    LET row2 == IF fld # <<>> THEN Append(row, fld) ELSE row
    IN  IF text = <<>>
        THEN IF row2 # <<>> THEN Append(rows, row2) ELSE rows
        ELSE LET c == Head(text)
             IN  IF c = NL
                 THEN Tokenize(Tail(text),
                               IF row2 # <<>> THEN Append(rows, row2) ELSE rows,
                               <<>>, <<>>)
                 ELSE IF c \in WhiteSpace
                 THEN Tokenize(Tail(text), rows, row2, <<>>)
                 ELSE Tokenize(Tail(text), rows, row, Append(fld, c))

\* names=['sentence_id', 'labels', 'words']
NumNames == 3

\* the strings read_csv reads as a missing value (of pandas' default list,
\* the one that occurs in RawLines)
NaValues == {<<"NA">>}
NaN == <<"nan">>

Max2(a, b) == IF a >= b THEN a ELSE b

\* the cell of column j (1..NumNames) of a tokenized row, after the leading
\* columns that became the index
Cell(row, leading, j) ==
    IF leading + j > Len(row) THEN NaN
    ELSE IF row[leading + j] \in NaValues THEN NaN
    ELSE row[leading + j]

ReadCsv(text) ==
    LET rows == Tokenize(text, <<>>, <<>>, <<>>)
        expected == IF rows = <<>> THEN NumNames ELSE Max2(Len(rows[1]), NumNames)
        leading == expected - NumNames
    IN  IF \E k \in 1..Len(rows) : Len(rows[k]) > expected
        THEN [status |-> "ParserError", leading_cols |-> leading, rows |-> <<>>]
        ELSE [status |-> "ok",
              leading_cols |-> leading,
              rows |-> [k \in 1..Len(rows) |->
                          [sentence_id |-> Cell(rows[k], leading, 1),
                           labels |-> Cell(rows[k], leading, 2),
                           words |-> Cell(rows[k], leading, 3)]]]

\* df['labels'].notnull() in place of df['words'].notnull()
LabelsNotNull(r) == r.labels # NaN

\* df[df['words'].notnull()]
NotNullFilter(r) == r.words # NaN

ParseSplit(lst) ==
    LET df == ReadCsv(Join(lst))
    IN  [df EXCEPT !.rows = SelectSeq(df.rows, NotNullFilter)]

ReadAndFilter ==
    /\ cpc = "joined"
    /\ parsed' = ParseSplit(new_df_list)
    /\ cpc' = "done"
    /\ UNCHANGED <<df_list, idx, sentense_id, new_df_list>>
    /\ UNCHANGED testVars

(***************************************************************************)
(* test: the aggregation of the models' predictions                        *)
(***************************************************************************)
models == <<"bert", "distilbert", "roberta">>

\* the order of Python's string comparison on the tokens and on the model
\* names that occur
TokenOrder == <<"a", "b">>
ModelOrder == <<"bert", "distilbert", "roberta">>
Rank(x, order) == CHOOSE k \in 1..Len(order) : order[k] = x

\* what predict() may return for one sentence: a list of {token: label}
SentencePredictions ==
    { <<>>,
      << <<"a", "O">> >>,
      << <<"b", "O">>, <<"a", "B">> >>,
      << <<"a", "O">>, <<"a", "B">> >> }

RECURSIVE NumPairs(_)
NumPairs(prediction) ==
    IF prediction = <<>> THEN 0 ELSE Len(Head(prediction)) + NumPairs(Tail(prediction))

\* df_p of model m and sentence i: one row per pair of prediction[i]
Frame(m, i, pairs) ==
    [k \in 1..Len(pairs) |->
        [world |-> pairs[k][1], label |-> pairs[k][2], sentence |-> i, model |-> m]]

\* the frames the inner loop appends for one model, i = 0 .. len(prediction)-1
Frames(m, prediction) ==
    [i \in 1..Len(prediction) |-> Frame(m, i - 1, prediction[i])]

\* pd.concat(sentence_li, ignore_index=True), of a non-empty list
Concat(li) == Join(li)

\* the sequence of the elements of the finite set S by increasing rank[x]
RECURSIVE SortSet(_, _)
SortSet(S, rank) ==
    IF S = {} THEN <<>>
    ELSE LET least == CHOOSE x \in S : \A y \in S \ {x} : rank[x] < rank[y]
         IN  <<least>> \o SortSet(S \ {least}, rank)

\* the lexicographic order of the (world, sentence) tuples of a set of keys
KeyRank(keys) ==
    [k \in keys |-> Cardinality({j \in keys :
        \/ Rank(j[1], TokenOrder) < Rank(k[1], TokenOrder)
        \/ j[1] = k[1] /\ j[2] < k[2]})]

ModelRank(ms) == [m \in ms |-> Rank(m, ModelOrder)]

\* index=['world'] in place of index=['world', 'sentence']: one entry per
\* token, under the first sentence it occurs in
PivotIndexWorldOnly(df) ==
    LET keys == {<<df[k].world, df[k].sentence>> : k \in
                    {k \in 1..Len(df) : \A j \in 1..Len(df) :
                        df[j].world = df[k].world => df[k].sentence <= df[j].sentence}}
    IN  SortSet(keys, KeyRank(keys))

\* the index of the pivoted frame: the distinct (world, sentence), sorted
PivotIndex(df) ==
    LET keys == {<<df[k].world, df[k].sentence>> : k \in 1..Len(df)}
    IN  SortSet(keys, KeyRank(keys))

\* the columns in the order the models first occur in the frame
PivotColumnsUnsorted(df) ==
    LET ms == {df[k].model : k \in 1..Len(df)}
    IN  SortSet(ms, [m \in ms |-> CHOOSE k \in 1..Len(df) :
                        df[k].model = m /\ \A j \in 1..(k - 1) : df[j].model # m])

\* the columns of the pivoted frame: the distinct models, sorted
PivotColumns(df) ==
    LET ms == {df[k].model : k \in 1..Len(df)}
    IN  SortSet(ms, ModelRank(ms))

\* pivot raises ValueError('Index contains duplicate entries, cannot reshape')
HasDuplicateEntries(df) ==
    \E j, k \in 1..Len(df) :
        /\ j < k
        /\ df[j].world = df[k].world
        /\ df[j].sentence = df[k].sentence
        /\ df[j].model = df[k].model

\* the value fillna(0) writes; no label of the model is spelled "0"
Zero == "0"

\* one cell of the pivoted frame after fillna(0, inplace=True)
CellValue(df, key, m) ==
    IF \E k \in 1..Len(df) : <<df[k].world, df[k].sentence>> = key /\ df[k].model = m
    THEN df[CHOOSE k \in 1..Len(df) :
                <<df[k].world, df[k].sentence>> = key /\ df[k].model = m].label
    ELSE Zero

\* df.pivot(index=['world', 'sentence'], columns='model'), fillna(0) and
\* reset_index, of a frame without duplicate entries; a frame without rows
\* gives a table without rows and without model columns
Pivot(df) ==
    LET index == PivotIndex(df)
        columns == PivotColumns(df)
    IN  [columns |-> columns,
         rows |-> [r \in 1..Len(index) |->
                    [world |-> index[r][1],
                     sentence |-> index[r][2],
                     label |-> [c \in 1..Len(columns) |-> CellValue(df, index[r], columns[c])]]]]

\* sort_values(by=['sentence']) with the default kind='quicksort', which
\* orders by the key and leaves the order of equal keys to the algorithm:
\* "stable" keeps them as they were, "reversed" is another order a build
\* may produce; followed by reset_index(drop=True)
SortKinds == {"stable", "reversed"}

SortValues(rows, kind) ==
    LET n == Len(rows)
        perm == SortSet(1..n, [p \in 1..n |->
                    rows[p].sentence * (n + 1) + (IF kind = "stable" THEN p ELSE n + 1 - p)])
    IN  [r \in 1..n |-> rows[perm[r]]]

ValueError == [status |-> "ValueError", columns |-> <<>>, rows |-> <<>>]

\* lines 165-172 of test()
Aggregate(li, kind) ==
    IF li = <<>> THEN ValueError
    ELSE LET df == Concat(li)
             pivoted == Pivot(df)
         IN  IF HasDuplicateEntries(df) THEN ValueError
             ELSE [status |-> "ok",
                   columns |-> pivoted.columns,
                   rows |-> SortValues(pivoted.rows, kind)]

NoResult == [status |-> "none", columns |-> <<>>, rows |-> <<>>]

\* what predict() may return for n sentences: one element per sentence, or
\* a list that is one element short or one element long
Predictions(n) ==
    {p \in SeqsUpTo(SentencePredictions, MaxSent) : Len(p) \in {n - 1, n, n + 1}}

\* one iteration of `for m in models`: predict() returns and the inner loop
\* appends one frame per element of the prediction; the concatenated frame
\* is kept within MaxRows rows
PredictAndCollect ==
    /\ tpc = "loop"
    /\ m_i < Len(models)
    /\ \E prediction \in Predictions(sentences_n) :
          /\ Len(Concat(sentence_li)) + NumPairs(prediction) <= MaxRows
          /\ predictions' = Append(predictions, prediction)
          /\ sentence_li' = sentence_li \o Frames(models[m_i + 1], prediction)
    /\ m_i' = m_i + 1
    /\ UNCHANGED <<sentences_n, tpc, new_df>>
    /\ UNCHANGED corpusVars

\* NERModel(...) or predict() raises: test() logs and raises Exception
PredictRaises ==
    /\ tpc = "loop"
    /\ m_i < Len(models)
    /\ tpc' = "raised"
    /\ UNCHANGED <<sentences_n, m_i, predictions, sentence_li, new_df>>
    /\ UNCHANGED corpusVars

\* after the loop: concat, pivot, fillna, reset_index, sort_values, return
AggregateAndReturn ==
    /\ tpc = "loop"
    /\ m_i = Len(models)
    /\ \E kind \in SortKinds : new_df' = Aggregate(sentence_li, kind)
    /\ tpc' = "done"
    /\ UNCHANGED <<sentences_n, m_i, predictions, sentence_li>>
    /\ UNCHANGED corpusVars

TestStart(n) ==
    /\ sentences_n = n
    /\ m_i = 0
    /\ predictions = <<>>
    /\ sentence_li = <<>>
    /\ tpc = "loop"
    /\ new_df = NoResult

NoTable == [status |-> "none", leading_cols |-> 0, rows |-> <<>>]

CorpusStart(lines) ==
    /\ df_list = lines
    /\ idx = 0
    /\ sentense_id = 0
    /\ new_df_list = <<>>
    /\ cpc = "loop"
    /\ parsed = NoTable

CorpusInit ==
    /\ \E lines \in SeqsUpTo(RawLines, MaxLines) : CorpusStart(lines)
    /\ TestStart(0)

TestInit ==
    /\ \E n \in 0..MaxSent : TestStart(n)
    /\ CorpusStart(<<>>)

TestNext ==
    \/ PredictAndCollect
    \/ PredictRaises
    \/ AggregateAndReturn

SpecTest == TestInit /\ [][TestNext]_vars

CorpusNext ==
    \/ MitLoopStep
    \/ MitLoopReturn
    \/ ReadAndFilter

(***************************************************************************)
(* Properties of the corpus parser                                         *)
(***************************************************************************)
\* number of blank delimiter lines among the first i - 1 raw lines
DelimsBefore(lines, i) == Cardinality({k \in 1..(i - 1) : lines[k] = <<NL>>})

\* the white-space separated fields of a raw line
FieldsOf(line) == SelectSeq(line, LAMBDA c : c \notin WhiteSpace \cup {NL})

ContentIdx(lines, n) == {k \in 1..n : lines[k] # <<NL>>}

\* a content line of exactly two fields whose token is not read as missing
WellFormed(line) ==
    /\ Len(FieldsOf(line)) = 2
    /\ <<FieldsOf(line)[2]>> \notin NaValues

WellFormedIdx(lines) == {k \in 1..Len(lines) : WellFormed(lines[k])}

\* the j-th smallest element of a set of indices
Kth(S, j) == CHOOSE k \in S : Cardinality({m \in S : m < k}) = j - 1

MaxOf(S) == CHOOSE k \in S : \A m \in S : m <= k

\* the counter value an emitted line is tagged with
TagOf(e) == ParseInt(SubSeq(e, 1, (CHOOSE k \in 1..Len(e) : e[k] = TAB /\ \A m \in 1..(k - 1) : e[m] # TAB) - 1))

\* C6: in the pass of mit_list2df the counter starts at 0 and always equals
\* the number of blank delimiter lines consumed so far (one increment per
\* delimiter, none for anything else); a delimiter emits nothing; every
\* content line is emitted tagged with the counter's value at that line; so
\* the tags of the emitted lines never decrease.
C6_CounterCountsDelimiters ==
    LET content == ContentIdx(df_list, idx)
    IN  /\ sentense_id = DelimsBefore(df_list, idx + 1)
        /\ Len(new_df_list) = Cardinality(content)
        /\ \A j \in 1..Len(new_df_list) :
              new_df_list[j] = Str(DelimsBefore(df_list, Kth(content, j)))
                                  \o <<TAB>> \o df_list[Kth(content, j)]
        /\ \A j \in 1..(Len(new_df_list) - 1) :
              TagOf(new_df_list[j]) <= TagOf(new_df_list[j + 1])

\* C6 witness: the pass has finished over at least three delimiters, one of
\* them before the first content line, and has emitted lines under
\* different counter values.
C6_Witness ==
    /\ cpc = "joined"
    /\ sentense_id >= 3
    /\ Len(new_df_list) >= 2
    /\ TagOf(new_df_list[1]) >= 1
    /\ TagOf(new_df_list[1]) < TagOf(new_df_list[Len(new_df_list)])

DistinctSentenceIds == {parsed.rows[k].sentence_id : k \in 1..Len(parsed.rows)}

\* C7 as stated: the number of distinct sentence_id values of the parsed
\* table equals the number of blank delimiter lines before the last content
\* line.
C7_DistinctEqualsDelimiters ==
    (cpc = "done" /\ parsed.status = "ok") =>
        Cardinality(DistinctSentenceIds) =
            IF ContentIdx(df_list, Len(df_list)) = {} THEN 0
            ELSE DelimsBefore(df_list, MaxOf(ContentIdx(df_list, Len(df_list))))

\* the table was read with the counter as its sentence_id column
CounterColumn == cpc = "done" /\ parsed.status = "ok" /\ parsed.leading_cols = 0

\* C7 amended: when the table is read with the counter as its sentence_id
\* column, the largest sentence_id (that of the last record) equals the
\* number of blank delimiter lines before the last retained content line,
\* and the number of distinct sentence_id values is at most that number
\* plus one; without a retained line the table is empty.
C7_LargestIdIsDelimiterCount ==
    CounterColumn =>
        IF WellFormedIdx(df_list) = {} THEN parsed.rows = <<>>
        ELSE LET d == DelimsBefore(df_list, MaxOf(WellFormedIdx(df_list)))
             IN  /\ parsed.rows # <<>>
                 /\ \A k \in 1..Len(parsed.rows) : IsDigits(parsed.rows[k].sentence_id)
                 /\ ParseInt(parsed.rows[Len(parsed.rows)].sentence_id) = d
                 /\ \A k \in 1..Len(parsed.rows) : ParseInt(parsed.rows[k].sentence_id) <= d
                 /\ Cardinality(DistinctSentenceIds) <= d + 1

\* C7 witness: a parsed table of at least two records whose input ends with
\* a blank line, with two distinct ids and 2 as the largest of them.
C7_Witness ==
    /\ CounterColumn
    /\ Len(parsed.rows) >= 2
    /\ df_list[Len(df_list)] = <<NL>>
    /\ Cardinality(DistinctSentenceIds) = 2
    /\ ParseInt(parsed.rows[Len(parsed.rows)].sentence_id) = 2

\* the records of the well-formed lines, each under the number of
\* delimiters before it
ExpectedRecords(lines) ==
    LET wf == WellFormedIdx(lines)
    IN  [j \in 1..Cardinality(wf) |->
            [sentence_id |-> Str(DelimsBefore(lines, Kth(wf, j))),
             labels |-> <<FieldsOf(lines[Kth(wf, j)])[1]>>,
             words |-> <<FieldsOf(lines[Kth(wf, j)])[2]>>]]

\* C8 as stated: a line that is not exactly two fields (fewer or more), or
\* whose token is missing, is excluded without an error, and every other
\* record is present under the sentence_id it would have had anyway.
C8_MalformedSilentlyExcluded ==
    cpc = "done" =>
        /\ parsed.status = "ok"
        /\ parsed.rows = ExpectedRecords(df_list)

(***************************************************************************)
(* Properties of the aggregation                                           *)
(***************************************************************************)
Finished == 1..Len(predictions)

\* the pairs model j emitted for the sentence of index i (0-based)
PairsOf(j, i) == IF i < Len(predictions[j]) THEN predictions[j][i + 1] ELSE <<>>

SentenceIdx == 0..(MaxSent + 1)

\* the (token, sentence_index) pairs observed across all models' outputs
ObservedKeys ==
    UNION {UNION {{<<PairsOf(j, i)[k][1], i>> : k \in 1..Len(PairsOf(j, i))} :
                    i \in SentenceIdx} : j \in Finished}

\* the positions at which model j emitted the key
EmittedAt(j, key) == {k \in 1..Len(PairsOf(j, key[2])) : PairsOf(j, key[2])[k][1] = key[1]}

\* the label model j emitted last for the key
LastLabel(j, key) == PairsOf(j, key[2])[MaxOf(EmittedAt(j, key))][2]

RowKey(r) == <<new_df.rows[r].world, new_df.rows[r].sentence>>

Returned == tpc = "done" /\ new_df.status = "ok"

\* the precondition of the aggregation: one prediction per input sentence
WellShaped == \A j \in Finished : Len(predictions[j]) = sentences_n

\* the cell of the row of `key` in the column of model j is `v`
CellIs(key, j, v) ==
    \E r \in 1..Len(new_df.rows), c \in 1..Len(new_df.columns) :
        /\ RowKey(r) = key
        /\ new_df.columns[c] = models[j]
        /\ new_df.rows[r].label[c] = v

\* C1: the returned table holds exactly one row per distinct
\* (token, sentence_index) pair observed across the models: no two rows
\* share a key, every observed pair has a row, and the predictions of the
\* different models for one pair are cells of that one row.
C1_OneRowPerKey ==
    Returned =>
        /\ \A r1, r2 \in 1..Len(new_df.rows) : r1 # r2 => RowKey(r1) # RowKey(r2)
        /\ {RowKey(r) : r \in 1..Len(new_df.rows)} = ObservedKeys
        /\ \A j \in Finished : \A key \in ObservedKeys :
              EmittedAt(j, key) # {} => CellIs(key, j, LastLabel(j, key))

\* C1 witness: a returned table in which two models gave different labels
\* to one key and one token occurs in two sentences.
C1_Witness ==
    /\ Returned
    /\ \E key \in ObservedKeys : \E j1, j2 \in Finished :
          /\ EmittedAt(j1, key) # {} /\ EmittedAt(j2, key) # {}
          /\ LastLabel(j1, key) # LastLabel(j2, key)
    /\ \E r1, r2 \in 1..Len(new_df.rows) :
          RowKey(r1)[1] = RowKey(r2)[1] /\ RowKey(r1)[2] # RowKey(r2)[2]

\* the position in the concatenated frame at which a key is emitted first
FirstEmission(key) ==
    LET df == Concat(sentence_li)
    IN  CHOOSE k \in 1..Len(df) :
            /\ <<df[k].world, df[k].sentence>> = key
            /\ \A j \in 1..(k - 1) : <<df[j].world, df[j].sentence>> # key

\* C2 as stated: the rows are ordered by sentence_index ascending and,
\* within one sentence_index, in the order in which their keys were first
\* emitted (models, then sentences, then the pairs of a sentence).
C2_FirstInsertionOrder ==
    (Returned /\ WellShaped) =>
        \A r1, r2 \in 1..Len(new_df.rows) :
            r1 < r2 =>
                /\ new_df.rows[r1].sentence <= new_df.rows[r2].sentence
                /\ new_df.rows[r1].sentence = new_df.rows[r2].sentence =>
                      FirstEmission(RowKey(r1)) < FirstEmission(RowKey(r2))

\* C3 as stated: the table has a label column for every model supplied,
\* also for one that emitted no pair at all, and a cell holds the model's
\* label for the row's key, or 0 where the model emitted none.
C3_ColumnForEveryModel ==
    (Returned /\ WellShaped /\ new_df.rows # <<>>) =>
        \A j \in Finished : \A r \in 1..Len(new_df.rows) :
            CellIs(RowKey(r), j,
                   IF EmittedAt(j, RowKey(r)) # {} THEN LastLabel(j, RowKey(r)) ELSE Zero)

\* C4 as stated: when some model's prediction sequence is not as long as
\* the list of sentences, test() fails and returns no table (stated for the
\* inputs in which some model emits a pair).
C4_ShapeMismatchSignalled ==
    (tpc = "done" /\ ~WellShaped /\ ObservedKeys # {}) => new_df.status # "ok"

\* C5 as stated: when no per-sentence frame was collected, test() returns
\* an empty table and does not fail.
C5_NothingToAggregateIsEmpty ==
    (tpc = "done" /\ WellShaped /\ sentence_li = <<>>) =>
        new_df.status = "ok" /\ new_df.rows = <<>>

\* C9 as stated: the aggregation is an upsert: a key that already has a
\* row, also one the same model emits twice within a sentence, overrides
\* the model's cell of that row; it neither fails nor adds a row.
C9_RepeatedKeyOverrides ==
    (tpc = "done" /\ WellShaped /\ sentence_li # <<>>) =>
        /\ new_df.status = "ok"
        /\ Len(new_df.rows) = Cardinality(ObservedKeys)
        /\ \A j \in Finished : \A key \in ObservedKeys :
              EmittedAt(j, key) # {} => CellIs(key, j, LastLabel(j, key))

\* sentence_li had the for loop taken the models in the order `order`
RECURSIVE FramesInOrder(_)
FramesInOrder(order) ==
    IF order = <<>> THEN <<>>
    ELSE Frames(models[Head(order)], predictions[Head(order)]) \o FramesInOrder(Tail(order))

ModelOrders ==
    {o \in [1..Len(models) -> 1..Len(models)] : \A a, b \in 1..Len(models) : a # b => o[a] # o[b]}

\* C10: the outcome of test() does not depend on the order in which the
\* models are processed: the same per-model predictions, collected in any
\* order, give the same rows in the same order with the same cells (or the
\* same failure), the sort of the build being the same in all of them.
C10_ModelOrderInsignificant ==
    tpc = "done" =>
        \E kind \in SortKinds :
            \A order \in ModelOrders : Aggregate(FramesInOrder(order), kind) = new_df

\* C10 witness: a returned table of three columns where the models emit
\* the tokens of one sentence in different orders.
C10_Witness ==
    /\ Returned
    /\ Len(new_df.columns) = 3
    /\ \E i \in SentenceIdx : \E j1, j2 \in Finished :
          /\ PairsOf(j1, i) # <<>> /\ PairsOf(j2, i) # <<>>
          /\ PairsOf(j1, i)[1][1] # PairsOf(j2, i)[1][1]

SpecCorpus == CorpusInit /\ [][CorpusNext]_vars

====
